---- MODULE Spec2Model ----
(***************************************************************************)
(* A model of taipo/common.py: the Rasa annotation helpers entity_names,   *)
(* gen_curly_ents, curly_entity_items and replace_ent_assignment.          *)
(*                                                                         *)
(* A text is a sequence of one-character strings.  Python's str.find,      *)
(* slicing, str.replace and str.split, and the regular-expression search   *)
(* behind parse.compile(...).findall, are modelled by what they compute.   *)
(***************************************************************************)
EXTENDS Integers, Sequences, FiniteSets, TLC

\* ------------------------------------------------------------------ bounds

\* Longest text handed to gen_curly_ents, in tokens of CurlyToks.
MaxCurlyToks == 5

\* Largest input of curly_entity_items: the tokens of ItemToks in all its
\* texts, plus one for each text.
MaxItemSize == 7

\* Largest argument of entity_names: the tokens of NameToks in all its texts,
\* plus one for each text.
MaxNameSize == 6

\* Largest argument of replace_ent_assignment: the tokens of StripToks in all
\* its texts, plus one for each text.
MaxStripSize == 5

\* ------------------------------------------------------- Python primitives

\* All sequences over S of length at most n.
SeqsUpTo(S, n) == UNION {[1..k -> S] : k \in 0..n}

\* The set of elements of a sequence.
Range(s) == {s[i] : i \in 1..Len(s)}

\* str.find for a one-character needle: the 0-based index of the first
\* occurrence, or -1.
PyFind(s, c) ==
  IF \E i \in 1..Len(s) : s[i] = c
  THEN (CHOOSE i \in 1..Len(s) : s[i] = c /\ \A j \in 1..(i - 1) : s[j] # c) - 1
  ELSE -1

\* A slice bound as Python normalises it: a negative index counts from the
\* end, and the result is clamped to 0..n.
PyIndex(i, n) ==
  IF i < 0 THEN (IF i + n < 0 THEN 0 ELSE i + n)
  ELSE IF i > n THEN n ELSE i

\* s[a:b]
PySlice(s, a, b) ==
  LET lo == PyIndex(a, Len(s))
      hi == PyIndex(b, Len(s))
  IN  IF hi <= lo THEN << >> ELSE SubSeq(s, lo + 1, hi)

\* s[a:]
PyFrom(s, a) == PySlice(s, a, Len(s))

\* Whether needle occurs in s at 1-based position i.
OccursAt(s, needle, i) ==
  /\ i >= 1
  /\ i + Len(needle) - 1 <= Len(s)
  /\ SubSeq(s, i, i + Len(needle) - 1) = needle

\* needle in s
Contains(s, needle) == \E i \in 1..(Len(s) + 1) : OccursAt(s, needle, i)

\* The concatenation of a sequence of texts.
RECURSIVE Concat(_)
Concat(ts) == IF ts = << >> THEN << >> ELSE Head(ts) \o Concat(Tail(ts))

\* The texts made of at most n tokens of Toks.
TextsOf(Toks, n) == {Concat(ts) : ts \in SeqsUpTo(Toks, n)}

\* ---------------------------------------------------------------- state

VARIABLES
  \* gen_curly_ents: the generator's frame
  text,        \* its local "text", the part still to scan
  sq1, sq2, br1, br2,   \* the four str.find results of the last iteration
  ent, curly_bit,       \* the pair yielded last
  gpc,         \* "new": not created, "loop": at the while test,
               \* "yield": suspended at the yield, "done": exhausted
  text0,       \* the argument the generator was created with
  npairs,      \* pairs yielded so far (counted up to PairCap)
  \* curly_entity_items
  results,     \* its local list "results"
  ret,         \* the list it returned
  ipc,         \* "idle", "texts": at the head of the loop over texts,
               \* "items": in the loop over the generator, "returned"
  texts,       \* the texts the loop has taken from its argument so far
  isize,       \* the size of those texts
  \* entity_names
  rasa_strings,   \* its argument
  name_results,   \* its local "results": for each text, the matches found
  flat_results,   \* its local "flat_results"
  names,          \* the list it returned
  epc,            \* "idle", "returned"
  \* replace_ent_assignment, and a second call of it on what it returned
  strip_texts,    \* the argument of the first call
  strip_found,    \* for each text of the first call, the matches found in it
  strip_results,  \* what the first call returned
  strip_again,    \* what the call on strip_results returned
  spc             \* "idle", "returned", "returned2"

curlyVars == <<text, sq1, sq2, br1, br2, ent, curly_bit, gpc, text0, npairs>>
itemVars == <<results, ret, ipc, texts, isize>>
nameVars == <<rasa_strings, name_results, flat_results, names, epc>>
stripVars == <<strip_texts, strip_found, strip_results, strip_again, spc>>
vars == <<curlyVars, itemVars, nameVars, stripVars>>

\* ------------------------------------------------------- gen_curly_ents

\* The texts scanned are built from single characters and one whole
\* annotation, so that a text can hold several annotations.
CurlyToks ==
  {<<"[">>, <<"]">>, <<"{">>, <<"}">>, <<"a">>, <<"[", "a", "]", "{", "a", "}">>}

CurlyTexts == TextsOf(CurlyToks, MaxCurlyToks)

\* The pair counter stops counting one above the number of tokens a text can
\* have, which is more than the number of "[" in it.
PairCap == MaxCurlyToks + 1

\* line 108, the while test
MoreBrackets(s) == PyFind(s, "[") # -1

\* The span from "[" up to, not including, "]".
EntSpanOpen(s, a, b) == PySlice(s, a, a + b)

\* line 113
EntSpan(s, a, b) == PySlice(s, a, a + b + 1)

\* line 114
CurlySpan(s, a, b, c, d) == PySlice(s, a + b + c, a + b + c + d + 1)

\* lines 109-115: one pass through the loop body up to the yield
GenScan ==
  /\ gpc = "loop"
  /\ MoreBrackets(text)
  /\ \E a \in {PyFind(text, "[")} :
     \E b \in {PyFind(PyFrom(text, a), "]")} :
     \E c \in {PyFind(PyFrom(text, a + b), "{")} :
     \E d \in {PyFind(PyFrom(text, a + b + c), "}")} :
       /\ sq1' = a
       /\ sq2' = b
       /\ br1' = c
       /\ br2' = d
       /\ ent' = EntSpan(text, a, b)
       /\ curly_bit' = CurlySpan(text, a, b, c, d)
  /\ gpc' = "yield"
  /\ npairs' = IF npairs < PairCap THEN npairs + 1 ELSE npairs
  /\ UNCHANGED <<text, text0>>

\* The text from the "{" found on.
AdvancedToOpenBrace(s, a, b, c, d) == PyFrom(s, a + b + c)

\* line 116: the generator is resumed after the yield
Advanced(s, a, b, c, d) == PyFrom(s, a + b + c + d)

GenAdvance ==
  /\ gpc = "yield"
  /\ text' = Advanced(text, sq1, sq2, br1, br2)
  /\ gpc' = "loop"
  /\ UNCHANGED <<sq1, sq2, br1, br2, ent, curly_bit, text0, npairs>>

\* line 108: the while test fails and the generator is exhausted
GenExit ==
  /\ gpc = "loop"
  /\ ~MoreBrackets(text)
  /\ gpc' = "done"
  /\ UNCHANGED <<text, sq1, sq2, br1, br2, ent, curly_bit, text0, npairs>>

\* line 104: gen_curly_ents(s) creates a generator; no line of its body has
\* run yet.
GenCreate(s) ==
  /\ text0' = s
  /\ text' = s
  /\ gpc' = "loop"
  /\ npairs' = 0
  /\ UNCHANGED <<sq1, sq2, br1, br2, ent, curly_bit>>

\* No generator exists.
NoGenerator ==
  /\ text0 = << >>
  /\ text = << >>
  /\ sq1 = 0 /\ sq2 = 0 /\ br1 = 0 /\ br2 = 0
  /\ ent = << >> /\ curly_bit = << >>
  /\ gpc = "new"
  /\ npairs = 0

\* curly_entity_items is not running.
NoItems ==
  /\ results = << >>
  /\ ret = << >>
  /\ ipc = "idle"
  /\ texts = << >>
  /\ isize = 0

\* entity_names is not running.
NoNames ==
  /\ rasa_strings = << >>
  /\ name_results = << >>
  /\ flat_results = << >>
  /\ names = << >>
  /\ epc = "idle"

\* replace_ent_assignment is not running.
NoStrip ==
  /\ strip_texts = << >>
  /\ strip_found = << >>
  /\ strip_results = << >>
  /\ strip_again = << >>
  /\ spc = "idle"

\* --- gen_curly_ents on its own, iterated by a caller

InitCurly == NoGenerator /\ NoItems /\ NoNames /\ NoStrip

CurlyCall ==
  /\ gpc = "new"
  /\ \E s \in CurlyTexts : GenCreate(s)
  /\ UNCHANGED <<itemVars, nameVars, stripVars>>

CurlyScan == GenScan /\ UNCHANGED <<itemVars, nameVars, stripVars>>

CurlyAdvance == GenAdvance /\ UNCHANGED <<itemVars, nameVars, stripVars>>

CurlyExit == GenExit /\ UNCHANGED <<itemVars, nameVars, stripVars>>

\* A step of the generator: next() on it.
CurlyStep == CurlyScan \/ CurlyAdvance \/ CurlyExit

NextCurly == CurlyCall \/ CurlyStep

SpecCurly == InitCurly /\ [][NextCurly]_vars

\* The caller iterates the generator to exhaustion (as the loop of line 126
\* does): as long as the generator can take a step, it is resumed.
LiveCurly == InitCurly /\ [][NextCurly]_vars /\ WF_vars(CurlyStep)

\* -------------------------------------------------- curly_entity_items

\* str.replace(c, r) for a one-character c
RECURSIVE ReplaceChar(_, _, _)
ReplaceChar(s, c, r) ==
  IF s = << >> THEN << >>
  ELSE (IF Head(s) = c THEN r ELSE <<Head(s)>>) \o ReplaceChar(Tail(s), c, r)

\* str.split(c) for a one-character c: the pieces between the occurrences of
\* c, the empty ones included.
RECURSIVE SplitOn(_, _)
SplitOn(s, c) ==
  IF PyFind(s, c) = -1 THEN <<s>>
  ELSE <<SubSeq(s, 1, PyFind(s, c))>>
         \o SplitOn(SubSeq(s, PyFind(s, c) + 2, Len(s)), c)

\* The chain without its replacement of ",".
CleanedKeepingCommas(curly) ==
  SplitOn(ReplaceChar(ReplaceChar(ReplaceChar(curly, ":", <<" ">>), "{", << >>),
                      "}", << >>),
          " ")

\* lines 127-133
Cleaned(curly) ==
  SplitOn(ReplaceChar(ReplaceChar(ReplaceChar(ReplaceChar(curly,
            ":", <<" ">>), "{", << >>), "}", << >>), ",", <<" ">>),
          " ")

\* lines 134-136: what the loop over cleaned appends to results
Appended(cleaned) == SelectSeq(cleaned, LAMBDA item : item # << >>)

\* line 137: list(set(results)) lists each element of results once, in an
\* order the language does not fix.
ListOfSet(S) ==
  {f \in [1..Cardinality(S) -> S] : \A i, j \in 1..Cardinality(S) : i # j => f[i] # f[j]}

\* The texts handed to curly_entity_items are sequences of these tokens: the
\* start of an annotation, the end of one, and characters that are filler
\* outside the annotations and metadata inside them.
AnnOpen == <<"[", "x", "]", "{">>
AnnClose == <<"}">>
ItemChars == {<<":">>, <<",">>, <<" ">>, <<"a">>}
ItemToks == {AnnOpen, AnnClose} \cup ItemChars

\* Whether position i of the token sequence w lies inside an annotation's
\* braces.
InsideAnn(w, i) ==
  Cardinality({m \in 1..(i - 1) : w[m] = AnnOpen})
    > Cardinality({m \in 1..(i - 1) : w[m] = AnnClose})

\* w is well-formed [x]{m} annotations separated by filler.
WellFormedItems(w) ==
  /\ \A i \in 1..Len(w) :
       /\ w[i] = AnnOpen => ~InsideAnn(w, i)
       /\ w[i] = AnnClose => InsideAnn(w, i)
  /\ ~InsideAnn(w, Len(w) + 1)

\* The well-formed token sequences of at most n tokens.
ItemTexts(n) == {w \in SeqsUpTo(ItemToks, n) : WellFormedItems(w)}

\* Whether position i of the text s lies between a "{" and the "}" that
\* closes it.
InBraces(s, i) ==
  Cardinality({m \in 1..(i - 1) : s[m] = "{"})
    > Cardinality({m \in 1..(i - 1) : s[m] = "}"})

IsWordChar(c) == c \notin {":", ",", " ", "{", "}"}

\* The metadata tokens written in s: the maximal runs of characters other
\* than ":", "," and " " between the braces of its annotations.
MetadataTokens(s) ==
  {SubSeq(s, p[1], p[2]) : p \in
     {q \in (1..Len(s)) \X (1..Len(s)) :
        /\ q[1] <= q[2]
        /\ \A m \in q[1]..q[2] : IsWordChar(s[m]) /\ InBraces(s, m)
        /\ ~IsWordChar(s[q[1] - 1])
        /\ ~IsWordChar(s[q[2] + 1])}}

\* The metadata tokens written in the texts taken so far.
Expected == UNION {MetadataTokens(texts[i]) : i \in 1..Len(texts)}

\* lines 123-124: the call, and the loop over texts takes its next text
ItemsCall ==
  /\ ipc = "idle"
  /\ results' = << >>
  /\ ipc' = "texts"
  /\ UNCHANGED <<ret, texts, isize>>
  /\ UNCHANGED <<curlyVars, nameVars, stripVars>>

\* lines 124-125
ItemsNextText ==
  /\ ipc = "texts"
  /\ isize < MaxItemSize
  /\ \E w \in ItemTexts(MaxItemSize - isize - 1) :
       /\ GenCreate(Concat(w))
       /\ texts' = Append(texts, Concat(w))
       /\ isize' = isize + Len(w) + 1
  /\ ipc' = "items"
  /\ UNCHANGED <<results, ret>>
  /\ UNCHANGED <<nameVars, stripVars>>

\* line 126: the loop asks the generator for its next pair, and the generator
\* runs from its yield back to the while test
ItemsResume ==
  /\ ipc = "items"
  /\ GenAdvance
  /\ UNCHANGED <<itemVars, nameVars, stripVars>>

\* lines 126-136: the generator yields a pair and the loop body runs on it
ItemsPair ==
  /\ ipc = "items"
  /\ GenScan
  /\ results' = results \o Appended(Cleaned(curly_bit'))
  /\ UNCHANGED <<ret, ipc, texts, isize>>
  /\ UNCHANGED <<nameVars, stripVars>>

\* line 126: the generator is exhausted and the loop over it ends
ItemsExhausted ==
  /\ ipc = "items"
  /\ GenExit
  /\ ipc' = "texts"
  /\ UNCHANGED <<results, ret, texts, isize>>
  /\ UNCHANGED <<nameVars, stripVars>>

\* line 137: the loop over texts has ended
ItemsReturn ==
  /\ ipc = "texts"
  /\ ret' \in ListOfSet(Range(results))
  /\ ipc' = "returned"
  /\ UNCHANGED <<results, texts, isize>>
  /\ UNCHANGED <<curlyVars, nameVars, stripVars>>

InitItems == NoGenerator /\ NoItems /\ NoNames /\ NoStrip

NextItems ==
  \/ ItemsCall
  \/ ItemsNextText
  \/ ItemsResume
  \/ ItemsPair
  \/ ItemsExhausted
  \/ ItemsReturn

SpecItems == InitItems /\ [][NextItems]_vars

\* ------------------------------------------------------ arguments

\* An argument of entity_names or replace_ent_assignment is written as a
\* sequence of tokens, each text ended by a newline (the texts are the lines
\* of an "examples" block, line 23 of the source).
NewLine == <<"\n">>

\* The list of texts written by the token sequence w.
TextList(w) ==
  LET pieces == SplitOn(Concat(w), "\n")
  IN  SubSeq(pieces, 1, Len(pieces) - 1)

\* The lists of texts of size at most n over the tokens Toks.
TextLists(Toks, n) ==
  {TextList(w) : w \in {<< >>} \cup
     {Append(v, NewLine) : v \in SeqsUpTo(Toks \cup {NewLine}, n - 1)}}

\* The least element of a non-empty set of integers.
Least(S) == CHOOSE x \in S : \A y \in S : x <= y

\* --------------------------------------------------------- entity_names

\* line 95-96: the matches of parse.compile("({entity})").findall(s) from
\* position pos (from 1) on.  The format compiles to the regular expression
\* \((.+?)\) searched with DOTALL: the leftmost "(" that has a ")" at least two
\* places after it, up to the first such ")"; the search resumes after it.
\* start and end are the 0-based span of the match.
RECURSIVE FindAllParen(_, _)
FindAllParen(s, pos) ==
  LET starts == {i \in pos..Len(s) :
                   s[i] = "(" /\ \E j \in (i + 2)..Len(s) : s[j] = ")"}
  IN  IF starts = {} THEN << >>
      ELSE LET i == Least(starts)
               j == Least({k \in (i + 2)..Len(s) : s[k] = ")"})
           IN  <<[entity |-> SubSeq(s, i + 1, j - 1), start |-> i - 1, end |-> j]>>
                 \o FindAllParen(s, j + 1)

\* line 97
Flatten(lists) == Concat(lists)

\* The values in the order of their last appearance.
RECURSIVE UniqueKeepingLast(_)
UniqueKeepingLast(xs) ==
  IF xs = << >> THEN << >>
  ELSE IF Head(xs) \in Range(Tail(xs)) THEN UniqueKeepingLast(Tail(xs))
       ELSE <<Head(xs)>> \o UniqueKeepingLast(Tail(xs))

\* line 100, Series.unique(): the values in the order of their first
\* appearance
RECURSIVE Unique(_)
Unique(xs) ==
  IF xs = << >> THEN << >>
  ELSE <<Head(xs)>>
         \o Unique(SelectSeq(Tail(xs), LAMBDA x : x # Head(xs)))

\* lines 98-101
UniqueNames(flat) ==
  IF Len(flat) = 0 THEN << >>
  ELSE Unique([i \in 1..Len(flat) |-> flat[i].entity])

NameToks ==
  {<<"(">>, <<")">>, <<"a">>, <<"b">>, <<"[", "a", "]", "(", "a", ")">>}

\* lines 95-101: a call of entity_names
NamesCall ==
  /\ epc = "idle"
  /\ \E xs \in TextLists(NameToks, MaxNameSize) :
       LET res == [i \in 1..Len(xs) |-> FindAllParen(xs[i], 1)]
       IN  /\ rasa_strings' = xs
           /\ name_results' = res
           /\ flat_results' = Flatten(res)
           /\ names' = UniqueNames(Flatten(res))
  /\ epc' = "returned"
  /\ UNCHANGED <<curlyVars, itemVars, stripVars>>

InitNames == NoGenerator /\ NoItems /\ NoNames /\ NoStrip

NextNames == NamesCall

SpecNames == InitNames /\ [][NextNames]_vars

\* ------------------------------------------------ replace_ent_assignment

\* line 145, 148: the matches of
\* parse.compile("[{entity}]({ent_name})").findall(s) from position pos (from
\* 1) on.  The format compiles to \[(.+?)\]\((.+?)\) searched with DOTALL: at
\* the leftmost "[" where it can match, entity is the shortest non-empty run
\* that "](" follows with a ")" at least one character later, and ent_name
\* runs to the first such ")"; the search resumes after it.
\* A search that resumes one character after the start of the match.
ResumeInsideMatch(i, k) == i + 1

\* Where the search resumes after a match that starts at i and ends at k.
ResumeAfter(i, k) == k + 1

RECURSIVE FindAllAnn(_, _)
FindAllAnn(s, pos) ==
  LET Closes(i) == {j \in (i + 2)..(Len(s) - 1) :
                      /\ s[j] = "]"
                      /\ s[j + 1] = "("
                      /\ \E k \in (j + 3)..Len(s) : s[k] = ")"}
      starts == {i \in pos..Len(s) : s[i] = "[" /\ Closes(i) # {}}
  IN  IF starts = {} THEN << >>
      ELSE LET i == Least(starts)
               j == Least(Closes(i))
               k == Least({m \in (j + 3)..Len(s) : s[m] = ")"})
           IN  <<[entity |-> SubSeq(s, i + 1, j - 1),
                  ent_name |-> SubSeq(s, j + 2, k - 1),
                  start |-> i - 1, end |-> k]>>
                 \o FindAllAnn(s, ResumeAfter(i, k))

\* str.replace(old, new) for a non-empty old: the occurrences of old are
\* taken from left to right, without overlap.
RECURSIVE Replace(_, _, _)
Replace(s, old, new) ==
  IF Len(s) < Len(old) THEN s
  ELSE IF OccursAt(s, old, 1)
       THEN new \o Replace(SubSeq(s, Len(old) + 1, Len(s)), old, new)
       ELSE <<Head(s)>> \o Replace(Tail(s), old, new)

\* The first replacement alone.
StripOneKeepingName(t, f) == Replace(t, <<"[">> \o f.entity \o <<"]">>, f.entity)

\* lines 149-150: the two replacements made for one match
StripOne(t, f) ==
  Replace(Replace(t, <<"[">> \o f.entity \o <<"]">>, f.entity),
          <<"(">> \o f.ent_name \o <<")">>, << >>)

\* lines 148-150: the loop over the matches found in the text as it was
RECURSIVE StripMatches(_, _)
StripMatches(t, found) ==
  IF found = << >> THEN t
  ELSE StripMatches(StripOne(t, Head(found)), Tail(found))

\* lines 146-152
ReplaceEntAssignment(xs) ==
  [i \in 1..Len(xs) |-> StripMatches(xs[i], FindAllAnn(xs[i], 1))]

StripToks ==
  {<<"[">>, <<"]">>, <<"(">>, <<")">>, <<"a">>,
   <<"(", "a", ")">>, <<"(", "b", ")">>, <<"[", "a", "]", "(", "a", ")">>}

\* lines 145-152: a call of replace_ent_assignment
StripCall ==
  /\ spc = "idle"
  /\ \E xs \in TextLists(StripToks, MaxStripSize) :
       /\ strip_texts' = xs
       /\ strip_found' = [i \in 1..Len(xs) |-> FindAllAnn(xs[i], 1)]
       /\ strip_results' = ReplaceEntAssignment(xs)
  /\ spc' = "returned"
  /\ UNCHANGED strip_again
  /\ UNCHANGED <<curlyVars, itemVars, nameVars>>

\* lines 145-152: replace_ent_assignment is called on the list it returned
StripAgain ==
  /\ spc = "returned"
  /\ strip_again' = ReplaceEntAssignment(strip_results)
  /\ spc' = "returned2"
  /\ UNCHANGED <<strip_texts, strip_found, strip_results>>
  /\ UNCHANGED <<curlyVars, itemVars, nameVars>>

InitStrip == NoGenerator /\ NoItems /\ NoNames /\ NoStrip

NextStrip == StripCall \/ StripAgain

SpecStrip == InitStrip /\ [][NextStrip]_vars

\* ------------------------------------------------ claims: gen_curly_ents

\* All four searches of the last iteration found their character.
AllFound == sq1 >= 0 /\ sq2 >= 0 /\ br1 >= 0 /\ br2 >= 0

\* The position (from 1) of the first c of s at or after position from, or 0
\* when there is none.
NextIndex(s, c, from) ==
  IF \E i \in from..Len(s) : s[i] = c
  THEN CHOOSE i \in from..Len(s) : s[i] = c /\ \A m \in from..(i - 1) : s[m] # c
  ELSE 0

\* The number of "[" in s.
Opens(s) == Cardinality({i \in 1..Len(s) : s[i] = "["})

\* s has a "[" that no "]", "{" or "}" follows.
Dangling(s) ==
  \E i \in 1..Len(s) :
    /\ s[i] = "["
    /\ \A j \in (i + 1)..Len(s) : s[j] \notin {"]", "{", "}"}

\* The last "[" of s is followed, in this order, by a "]", a "{" and a "}".
WellClosed(s) ==
  /\ Opens(s) > 0
  /\ LET i == CHOOSE p \in 1..Len(s) :
                s[p] = "[" /\ \A m \in (p + 1)..Len(s) : s[m] # "["
         j == NextIndex(s, "]", i + 1)
         k == NextIndex(s, "{", j + 1)
     IN  /\ j > 0
         /\ k > 0
         /\ NextIndex(s, "}", k + 1) > 0

\* C2: iterating gen_curly_ents to exhaustion over a text that has a "[" with
\* no "]", "{" or "}" after it terminates: the generator reaches its terminal
\* state.
C2_DanglingTerminates == Dangling(text0) ~> (gpc = "done")

\* C7 as stated: when the generator is resumed after a yield, the remaining
\* text is text[sq1+sq2+br1:], which begins at the "{" of the span just
\* yielded.
C7_CursorAtOpenBrace ==
  [][(gpc = "yield" /\ gpc' = "loop") => text' = PyFrom(text, sq1 + sq2 + br1)]_vars

\* C7 as amended: when the generator is resumed after a yield, the remaining
\* text is text[sq1+sq2+br1+br2:]; when all four searches succeeded this is
\* the closing "}" of the curly span just yielded followed by what came after
\* that span, so nothing inside the span, a "[" included, is scanned again.
C7_CursorAtCloseBrace ==
  [][(gpc = "yield" /\ gpc' = "loop") =>
       /\ text' = PyFrom(text, sq1 + sq2 + br1 + br2)
       /\ AllFound =>
            /\ text' # << >>
            /\ text'[1] = "}"
            /\ \E pre \in {SubSeq(text, 1, n) : n \in 0..Len(text)} :
                 /\ text = pre \o curly_bit \o Tail(text')
                 /\ Len(pre) = sq1 + sq2 + br1
    ]_vars

\* C7 witness: the generator was resumed after yielding a curly span that holds
\* a "[", and the remaining text is just the span's "}".
C7_Witness ==
  /\ gpc = "loop"
  /\ npairs = 1
  /\ AllFound
  /\ "[" \in Range(curly_bit)
  /\ text = <<"}">>

\* C9: in an iteration in which all four searches succeed, ent runs from the
\* first "[" of the remaining text through the first "]" after it, and
\* curly_bit from the first "{" after that "]" through the first "}" after
\* that "{", whatever lies between the "]" and the "{".
C9_EmittedSpans ==
  (gpc = "yield" /\ AllFound) =>
    LET i == NextIndex(text, "[", 1)
        j == NextIndex(text, "]", i + 1)
        k == NextIndex(text, "{", j + 1)
        l == NextIndex(text, "}", k + 1)
    IN  /\ i > 0 /\ j > i /\ k > j /\ l > k
        /\ ent = SubSeq(text, i, j)
        /\ curly_bit = SubSeq(text, k, l)

\* C9 witness: a pair was yielded with all four searches successful and with
\* a further "[" and "]" between the "]" that closes ent and the "{".
C9_Witness ==
  /\ gpc = "yield"
  /\ AllFound
  /\ br1 >= 3
  /\ {"[", "]"} \subseteq Range(PySlice(text, sq1 + sq2 + 1, sq1 + sq2 + br1))

\* C10: when the last "[" of the text is followed in order by "]", "{" and
\* "}", no search returns -1, every iteration shortens the remaining text by
\* at least 3 characters, at most as many pairs are yielded as the text has
\* "[", and the generator terminates.
C10_WellClosedScan ==
  /\ [](WellClosed(text0) =>
          /\ gpc = "yield" => AllFound
          /\ npairs <= Opens(text0))
  /\ [][(WellClosed(text0) /\ gpc = "yield" /\ gpc' = "loop")
          => Len(text') + 3 <= Len(text)]_vars
  /\ (WellClosed(text0) ~> (gpc = "done"))

\* C10 witness: such a text was scanned to exhaustion and two pairs were
\* yielded.
C10_Witness == WellClosed(text0) /\ gpc = "done" /\ npairs = 2

\* ---------------------------------------------- claims: curly_entity_items

\* C6: on texts made of well-formed [x]{m} annotations separated by filler
\* without brackets and braces, curly_entity_items returns each metadata token
\* of the annotations exactly once and nothing else, and no returned token is
\* empty or holds "{", "}", ":", "," or a space.
C6_ItemsAreTokens ==
  ipc = "returned" =>
    /\ Range(ret) = Expected
    /\ Len(ret) = Cardinality(Expected)
    /\ \A i \in 1..Len(ret) :
         /\ ret[i] # << >>
         /\ Range(ret[i]) \cap {"{", "}", ":", ",", " "} = {}

\* C6 witness: a token written twice in the annotations was returned once.
C6_Witness ==
  /\ ipc = "returned"
  /\ Len(results) > Len(ret)
  /\ Len(ret) >= 1

\* ---------------------------------------------------- claims: entity_names

IsPlain(s) == Range(s) \cap {"[", "]", "(", ")"} = {}

\* The names y of the well-formed occurrences [x](y) in s: x and y are
\* non-empty and hold no bracket and no parenthesis.
OccurrenceNames(s) ==
  {SubSeq(s, q[2] + 2, q[3] - 1) : q \in
     {p \in (1..Len(s)) \X (1..Len(s)) \X (1..Len(s)) :
        /\ p[1] + 1 < p[2]
        /\ p[2] + 2 < p[3]
        /\ s[p[1]] = "["
        /\ s[p[2]] = "]"
        /\ s[p[2] + 1] = "("
        /\ s[p[3]] = ")"
        /\ IsPlain(SubSeq(s, p[1] + 1, p[2] - 1))
        /\ IsPlain(SubSeq(s, p[2] + 2, p[3] - 1))}}

\* C3: for a text with well-formed occurrences [x](y), and other characters
\* around them, entity_names([text]) returns exactly the distinct y of those
\* occurrences.
C3_ExactlyOccurrenceNames ==
  (epc = "returned" /\ Len(rasa_strings) = 1
     /\ OccurrenceNames(rasa_strings[1]) # {}) =>
    Range(names) = OccurrenceNames(rasa_strings[1])

\* The matches entity_names found, each as <<text, number in the text>>.
NameMatches ==
  UNION {{<<t, k>> : k \in 1..Len(name_results[t])} : t \in 1..Len(name_results)}

MatchOf(o) == name_results[o[1]][o[2]]

\* o1 starts before o2 when the texts are read in input order, each from left
\* to right.
StartsBefore(o1, o2) ==
  \/ o1[1] < o2[1]
  \/ o1[1] = o2[1] /\ MatchOf(o1).start < MatchOf(o2).start

C1_Idempotent == spc = "returned2" => strip_again = strip_results

\* The matches found in text i of the first call have entities and names
\* without brackets and parentheses, and there is at least one.
PlainMatches(i) ==
  /\ strip_found[i] # << >>
  /\ \A k \in 1..Len(strip_found[i]) :
       IsPlain(strip_found[i][k].entity) /\ IsPlain(strip_found[i][k].ent_name)

\* Every bracket and parenthesis of text i is a delimiter of a match found in
\* it.
OnlyMatchDelimiters(i) ==
  \A p \in 1..Len(strip_texts[i]) :
    strip_texts[i][p] \in {"[", "]", "(", ")"} =>
      \E k \in 1..Len(strip_found[i]) :
        LET f == strip_found[i][k]
        IN  p \in {f.start + 1, f.start + Len(f.entity) + 2,
                   f.start + Len(f.entity) + 3, f.end}

\* Result i holds neither [x] nor (y) for any match [x](y) found in text i.
NoLiteralLeft(i) ==
  \A k \in 1..Len(strip_found[i]) :
    LET f == strip_found[i][k]
    IN  /\ ~Contains(strip_results[i], <<"[">> \o f.entity \o <<"]">>)
        /\ ~Contains(strip_results[i], <<"(">> \o f.ent_name \o <<")">>)

\* C4 as stated: for a text with well-formed, non-overlapping occurrences
\* [x](y), the result holds no [x] and no (y) of a matched occurrence.
C4_NoLiteralLeft ==
  spc = "returned" =>
    \A i \in 1..Len(strip_texts) : PlainMatches(i) => NoLiteralLeft(i)

\* C4 as amended: the same, for a text in which every bracket and parenthesis
\* belongs to one of the occurrences.
C4_NoLiteralLeftInCleanText ==
  spc = "returned" =>
    \A i \in 1..Len(strip_texts) :
      (PlainMatches(i) /\ OnlyMatchDelimiters(i)) => NoLiteralLeft(i)

\* C4 witness: a text of two occurrences and a character between them was
\* stripped.
C4_Witness ==
  /\ spc = "returned"
  /\ \E i \in 1..Len(strip_texts) :
       /\ PlainMatches(i)
       /\ OnlyMatchDelimiters(i)
       /\ Len(strip_found[i]) = 2
       /\ strip_found[i][1].end < strip_found[i][2].start

\* Text i reads [entity](ent_name) at the span of each match found in it, and
\* the matches follow each other from left to right without overlap.
MatchesInOrder(i) ==
  \A k \in 1..Len(strip_found[i]) :
    LET f == strip_found[i][k]
    IN  /\ SubSeq(strip_texts[i], f.start + 1, f.end)
             = <<"[">> \o f.entity \o <<"]", "(">> \o f.ent_name \o <<")">>
        /\ k > 1 => strip_found[i][k - 1].end <= f.start

\* C8 as stated: the entity of a match holds no "]" and its ent_name no ")";
\* the matches of a text do not overlap and are in left-to-right order.
C8_MatchesAsSpecified ==
  spc = "returned" =>
    \A i \in 1..Len(strip_texts) :
      /\ MatchesInOrder(i)
      /\ \A k \in 1..Len(strip_found[i]) :
           /\ "]" \notin Range(strip_found[i][k].entity)
           /\ ")" \notin Range(strip_found[i][k].ent_name)

\* C8 as amended: the entity of a match is not empty and no "](" begins after
\* its first character (it may hold "]"); its ent_name is not empty and holds
\* no ")" after its first character; the matches of a text do not overlap and
\* are in left-to-right order.
C8_MatchesAsFound ==
  spc = "returned" =>
    \A i \in 1..Len(strip_texts) :
      /\ MatchesInOrder(i)
      /\ \A k \in 1..Len(strip_found[i]) :
           LET f == strip_found[i][k]
           IN  /\ f.entity # << >>
               /\ f.ent_name # << >>
               /\ ~Contains(Tail(f.entity), <<"]", "(">>)
               /\ ")" \notin Range(Tail(f.ent_name))

\* C8 witness: two matches were found in a text, the first with a "]" in its
\* entity.
C8_Witness ==
  /\ spc = "returned"
  /\ \E i \in 1..Len(strip_texts) :
       /\ Len(strip_found[i]) = 2
       /\ "]" \in Range(strip_found[i][1].entity)

====
